---- MODULE Spec2Model ----
(***************************************************************************)
(* Model of the delivery assignment engine (solver.py, utils.py,          *)
(* models.py): DeliverySystemSolver with its greedy solve() loop, the     *)
(* dynamic agent queue and the random delay draw.                         *)
(*                                                                         *)
(* A Python dict is a sequence of entries in insertion order; setting an  *)
(* existing key keeps the key's place and replaces its value.             *)
(***************************************************************************)
EXTENDS Integers, Sequences, FiniteSets, TLC

\* ------------------------------------------------------------------ bounds
MaxAgents == 2
MaxPackages == 2
\* packages of a command-line run: main() adds its dynamic agent above 3
MaxMainPackages == 4
MaxRegistrations == 2
MaxSolves == 2
MaxDelay == 6

\* ------------------------------------------------------- program constants
\* default of the min_delay argument of the constructor
MinDelay == 5
\* float('inf'), the start value of the minimum search; every finite trip
\* distance of the model lies below it
Inf == 999

\* best_agent_id = None
None == "None"

\* ------------------------------------------------------------------ inputs
\* Locations of agents and destinations. With the warehouse at (6,0) the legs
\* are 6 (from or to (0,0)) and 8 (from or to (6,8)), and the midpoint (3,4)
\* of the two locations is 5 away from the warehouse: every Euclidean distance
\* of the model is an exact integer, so the square root is computed exactly.
Loc == {<<0, 0>>, <<6, 8>>}

\* the warehouses mapping given to the constructor: id -> location
warehouses == [w \in {"W1"} |-> <<6, 0>>]

WarehouseRefs == {"W1", "W_MISSING"}
AgentIdSeq == <<"A1", "A2", "A3">>
PackageIdSeq == <<"P1", "P2", "P3", "P4", "P5">>
\* ids a dynamic agent may carry: a fresh one, or one that can collide with
\* an initial agent
DynamicIds == {"A2", "D1"}

Agent(id, location) == [id |-> id, location |-> location]
Package(id, warehouse_id, destination) ==
    [id |-> id, warehouse_id |-> warehouse_id, destination |-> destination]
\* the record numbered from 1 (timestamp=idx + 1)
Assignment_OneBased(agent_id, package_id, warehouse_id, total_distance, delay, timestamp) ==
    [agent_id |-> agent_id, package_id |-> package_id, warehouse_id |-> warehouse_id,
     total_distance |-> total_distance, delay |-> delay, timestamp |-> timestamp + 1]

\* Assignment(...), lines 120-127 of solver.py: timestamp=idx
Assignment(agent_id, package_id, warehouse_id, total_distance, delay, timestamp) ==
    [agent_id |-> agent_id, package_id |-> package_id, warehouse_id |-> warehouse_id,
     total_distance |-> total_distance, delay |-> delay, timestamp |-> timestamp]

\* ------------------------------------------------------------------- utils
Isqrt(n) == CHOOSE r \in 0..n : r * r <= n /\ (r + 1) * (r + 1) > n

euclidean_distance(loc1, loc2) ==
    Isqrt((loc1[1] - loc2[1]) * (loc1[1] - loc2[1])
          + (loc1[2] - loc2[2]) * (loc1[2] - loc2[2]))

calculate_trip_distance(agent_loc, warehouse_loc, destination) ==
    LET dist_to_warehouse == euclidean_distance(agent_loc, warehouse_loc)
        dist_to_destination == euclidean_distance(warehouse_loc, destination)
    IN  dist_to_warehouse + dist_to_destination

\* -------------------------------------------------------------------- dict
Keys(d) == [i \in 1..Len(d) |-> d[i].id]
HasKey(d, k) == \E i \in 1..Len(d) : d[i].id = k
DictGet(d, k) == d[CHOOSE i \in 1..Len(d) : d[i].id = k].location
DictSet(d, k, v) ==
    IF HasKey(d, k)
    THEN [i \in 1..Len(d) |-> IF d[i].id = k THEN Agent(k, v) ELSE d[i]]
    ELSE Append(d, Agent(k, v))

\* ------------------------------------------------------------------- state
VARIABLES
    agents,                 \* self.agents: dict id -> Agent, insertion order
    packages,               \* self.packages
    enable_delays,          \* self.enable_delays
    enable_dynamic_agents,  \* self.enable_dynamic_agents
    pending_agents,         \* self.pending_agents: (join_idx, agent) in call order
    pc,                     \* "idle": no call running; "loop": inside solve()
    idx,                    \* solve(): number of packages processed so far
    active_agents,          \* solve(): the local dict id -> current location
    assignments,            \* solve(): the local result list
    scanned,                \* per processed package, the dict the search iterated
    results,                \* outcome of every finished solve() call, in order
    registered,             \* every (join_idx, agent) appended to the queue, ever
    joined,                 \* the "[Dynamic] Agent ... joined" lines printed, ever
    warnings,               \* number of warnings add_dynamic_agent printed
    main_pc,                \* main(): where the command-line run stands
    output                  \* main(): what format_output returned or raised

vars == <<agents, packages, enable_delays, enable_dynamic_agents, pending_agents,
          pc, idx, active_agents, assignments, scanned, results, registered,
          joined, warnings, main_pc, output>>

config == <<agents, packages, enable_delays, enable_dynamic_agents>>

\* the command-line run: untouched by the engine's own operations
cli == <<main_pc, output>>

\* output before format_output has run
NoOutput == [kind |-> "none"]

AgentChoices(k) == {Agent(AgentIdSeq[k], l) : l \in Loc}
PackageChoices(k) == {Package(PackageIdSeq[k], w, l) : w \in WarehouseRefs, l \in Loc}

\* the agents mappings of 0..n agents, the k-th keyed AgentIdSeq[k]
RECURSIVE AgentDicts(_)
AgentDicts(n) ==
    IF n = 0 THEN {<<>>}
    ELSE LET shorter == AgentDicts(n - 1)
         IN  shorter \cup {Append(s, e) : s \in {t \in shorter : Len(t) = n - 1},
                                          e \in AgentChoices(n)}

\* the package lists of 0..n packages, the k-th with id PackageIdSeq[k]
RECURSIVE PackageLists(_)
PackageLists(n) ==
    IF n = 0 THEN {<<>>}
    ELSE LET shorter == PackageLists(n - 1)
         IN  shorter \cup {Append(s, e) : s \in {t \in shorter : Len(t) = n - 1},
                                          e \in PackageChoices(n)}

Init ==
    /\ agents \in AgentDicts(MaxAgents)
    /\ packages \in PackageLists(MaxPackages)
    /\ enable_delays \in BOOLEAN
    /\ enable_dynamic_agents \in BOOLEAN
    /\ pending_agents = <<>>
    /\ pc = "idle"
    /\ idx = 0
    /\ active_agents = <<>>
    /\ assignments = <<>>
    /\ scanned = <<>>
    /\ results = <<>>
    /\ registered = <<>>
    /\ joined = <<>>
    /\ warnings = 0
    /\ main_pc = "off"
    /\ output = NoOutput

\* ------------------------------------------------------- add_dynamic_agent
\* add_dynamic_agent without the check of lines 145-147: the agent is queued
\* whatever the feature flag says
add_dynamic_agent_Unguarded(agent, join_after_packages) ==
    /\ pc = "idle"
    /\ warnings + Len(registered) < MaxRegistrations
    /\ pending_agents' = Append(pending_agents,
                                [join_idx |-> join_after_packages, agent |-> agent])
    /\ registered' = Append(registered,
                            [join_idx |-> join_after_packages, agent |-> agent])
    /\ warnings' = IF enable_dynamic_agents THEN warnings ELSE warnings + 1
    /\ UNCHANGED <<config, pc, idx, active_agents, assignments, scanned, results, joined>>

add_dynamic_agent(agent, join_after_packages) ==
    /\ pc = "idle"
    /\ warnings + Len(registered) < MaxRegistrations
    /\ IF ~enable_dynamic_agents
       THEN /\ warnings' = warnings + 1
            /\ UNCHANGED <<pending_agents, registered>>
       ELSE /\ pending_agents' = Append(pending_agents,
                                        [join_idx |-> join_after_packages, agent |-> agent])
            /\ registered' = Append(registered,
                                    [join_idx |-> join_after_packages, agent |-> agent])
            /\ UNCHANGED warnings
    /\ UNCHANGED <<config, pc, idx, active_agents, assignments, scanned, results, joined>>

\* the join_after_packages arguments tried: any int is accepted; -1 and 0
\* are both met at the first package, MaxPackages - 1 at the last one or never
JoinThresholds == (0 - 1)..(MaxPackages - 1)

AddDynamicAgent ==
    /\ \E id \in DynamicIds, l \in Loc, j \in JoinThresholds :
           add_dynamic_agent(Agent(id, l), j)
    /\ UNCHANGED cli

\* ------------------------------------------------------ _add_pending_agents
RECURSIVE Reverse(_)
Reverse(s) == IF s = <<>> THEN <<>> ELSE Append(Reverse(Tail(s)), Head(s))

\* the admitted agents taken from the back of the queue first
agents_to_add_Reversed(current_package_idx, pending) ==
    Reverse(SelectSeq(pending, LAMBDA e : current_package_idx >= e.join_idx))

\* lines 160-163: the pending agents whose threshold is met, in queue order
agents_to_add(current_package_idx, pending) ==
    SelectSeq(pending, LAMBDA e : current_package_idx >= e.join_idx)

\* the queue left as it was, the admitted agents still in it
remaining_agents_KeepAll(current_package_idx, pending) == pending

\* lines 164-167 and 175: the pending agents whose threshold is not met
remaining_agents(current_package_idx, pending) ==
    SelectSeq(pending, LAMBDA e : ~(current_package_idx >= e.join_idx))

RECURSIVE AddAgents(_, _)
AddAgents(active, to_add) ==
    IF to_add = <<>> THEN active
    ELSE AddAgents(DictSet(active, Head(to_add).agent.id, Head(to_add).agent.location),
                   Tail(to_add))

\* the active dict once the step's admission is over
Admit(current_package_idx, active, pending, enabled) ==
    IF enabled THEN AddAgents(active, agents_to_add(current_package_idx, pending))
    ELSE active

\* the join lines the step's admission prints (line 172), after those of `log`
JoinLog(current_package_idx, pending, enabled, log, call) ==
    IF enabled
    THEN log \o [i \in 1..Len(agents_to_add(current_package_idx, pending)) |->
                  [agent |-> agents_to_add(current_package_idx, pending)[i].agent,
                   join_idx |-> agents_to_add(current_package_idx, pending)[i].join_idx,
                   at |-> current_package_idx, call |-> call]]
    ELSE log

\* self.pending_agents once the step's admission is over
PendingAfter(current_package_idx, pending, enabled) ==
    IF enabled THEN remaining_agents(current_package_idx, pending) ELSE pending

\* ------------------------------------------------------------------- solve
\* the search of lines 100-113: <<best_agent_id, min_distance>>
RECURSIVE Search(_, _, _, _, _, _)
Search(active, i, warehouse_loc, destination, best_agent_id, min_distance) ==
    IF i > Len(active) THEN <<best_agent_id, min_distance>>
    ELSE LET distance == calculate_trip_distance(active[i].location, warehouse_loc,
                                                 destination)
         IN  IF distance < min_distance
             THEN Search(active, i + 1, warehouse_loc, destination, active[i].id, distance)
             ELSE Search(active, i + 1, warehouse_loc, destination, best_agent_id,
                         min_distance)

BestAgent(active, warehouse_loc, destination) ==
    Search(active, 1, warehouse_loc, destination, None, Inf)

\* the list built with insert(0, assignment) in place of append
Record_Prepend(list, assignment) == <<assignment>> \o list

\* assignments.append(assignment), line 129
Record(list, assignment) == Append(list, assignment)

\* active_agents[best_agent_id] = package.destination, line 133
UpdateLocation(active, best_agent_id, destination) ==
    DictSet(active, best_agent_id, destination)

\* the Agent records had line 133 written the destination into the chosen
\* agent's own record (self.agents[best_agent_id].location = ...)
AgentRecords_InPlace(records, best_agent_id, destination) ==
    IF HasKey(records, best_agent_id)
    THEN DictSet(records, best_agent_id, destination)
    ELSE records

\* the Agent records of self.agents after line 133: the statement rebinds the
\* slot of the local dict and writes to no Agent or Location object
AgentRecords(records, best_agent_id, destination) == records

\* the distance recorded had the delay been counted into it
RecordedDistance_WithDelay(min_distance, delay) == min_distance + delay

\* total_distance=min_distance, line 124: the delay is a field of its own
RecordedDistance(min_distance, delay) == min_distance

\* the draw made whether or not delays are enabled
Delays_Always(enabled) == MinDelay..MaxDelay

\* the delay of lines 116-118: 0.0, or a draw of random.uniform
Delays(enabled) == IF enabled THEN MinDelay..MaxDelay ELSE {0}

Outcome(kind, value, package_id, warehouse_id) ==
    [kind |-> kind, value |-> value, package_id |-> package_id,
     warehouse_id |-> warehouse_id, nreg |-> Len(registered)]

\* lines 83-85
SolveBegin ==
    /\ pc = "idle"
    /\ Len(results) < MaxSolves
    /\ pc' = "loop"
    /\ idx' = 0
    /\ assignments' = <<>>
    /\ active_agents' = agents
    /\ scanned' = <<>>
    /\ UNCHANGED <<config, pending_agents, results, registered, joined, warnings, cli>>

\* one iteration of the loop, lines 87-133, for a package whose warehouse exists
ProcessPackage ==
    /\ pc = "loop"
    /\ idx < Len(packages)
    /\ LET package == packages[idx + 1]
           active == Admit(idx, active_agents, pending_agents, enable_dynamic_agents)
       IN  /\ package.warehouse_id \in DOMAIN warehouses
           /\ pending_agents' = PendingAfter(idx, pending_agents, enable_dynamic_agents)
           /\ LET best == BestAgent(active, warehouses[package.warehouse_id],
                                    package.destination)
              IN  \E delay \in Delays(enable_delays) :
                      /\ assignments' = Record(assignments,
                             Assignment(best[1], package.id, package.warehouse_id,
                                        RecordedDistance(best[2], delay), delay, idx))
                      /\ active_agents' = UpdateLocation(active, best[1],
                                                         package.destination)
                      /\ agents' = AgentRecords(agents, best[1], package.destination)
           /\ scanned' = Append(scanned, active)
    /\ joined' = JoinLog(idx, pending_agents, enable_dynamic_agents, joined,
                         Len(results) + 1)
    /\ idx' = idx + 1
    /\ UNCHANGED <<packages, enable_delays, enable_dynamic_agents, pc, results,
                   registered, warnings, cli>>

\* the iteration leaving the loop with break in place of raise: solve() returns
\* the assignments made so far
RaiseWarehouseNotFound_Break ==
    /\ pc = "loop"
    /\ idx < Len(packages)
    /\ LET package == packages[idx + 1]
       IN  /\ package.warehouse_id \notin DOMAIN warehouses
           /\ pending_agents' = PendingAfter(idx, pending_agents, enable_dynamic_agents)
           /\ results' = Append(results, Outcome("ok", assignments, None, None))
    /\ joined' = JoinLog(idx, pending_agents, enable_dynamic_agents, joined,
                         Len(results) + 1)
    /\ pc' = "idle"
    /\ idx' = 0
    /\ assignments' = <<>>
    /\ active_agents' = <<>>
    /\ scanned' = <<>>
    /\ UNCHANGED <<config, registered, warnings, cli>>

\* the iteration that raises ValueError, lines 87-95: the admission has run
RaiseWarehouseNotFound ==
    /\ pc = "loop"
    /\ idx < Len(packages)
    /\ LET package == packages[idx + 1]
       IN  /\ package.warehouse_id \notin DOMAIN warehouses
           /\ pending_agents' = PendingAfter(idx, pending_agents, enable_dynamic_agents)
           /\ results' = Append(results, Outcome("ValueError", <<>>, package.id,
                                                 package.warehouse_id))
    /\ joined' = JoinLog(idx, pending_agents, enable_dynamic_agents, joined,
                         Len(results) + 1)
    /\ pc' = "idle"
    /\ idx' = 0
    /\ assignments' = <<>>
    /\ active_agents' = <<>>
    /\ scanned' = <<>>
    /\ UNCHANGED <<config, registered, warnings, cli>>

\* line 135
SolveReturn ==
    /\ pc = "loop"
    /\ idx = Len(packages)
    /\ results' = Append(results, Outcome("ok", assignments, None, None))
    /\ pc' = "idle"
    /\ idx' = 0
    /\ assignments' = <<>>
    /\ active_agents' = <<>>
    /\ scanned' = <<>>
    /\ UNCHANGED <<config, pending_agents, registered, joined, warnings, cli>>

Next ==
    \/ AddDynamicAgent
    \/ SolveBegin
    \/ ProcessPackage
    \/ RaiseWarehouseNotFound
    \/ SolveReturn

Spec == Init /\ [][Next]_vars

\* ------------------------------------------------------- result aggregation
\* the quotient cut after the second decimal, as int(100 * num / den) / 100
Round2_Truncating(num, den) == (100 * num) \div den

\* round(num / den, 2) for num >= 0, den > 0, in hundredths: Python rounds the
\* quotient to the nearest hundredth, an exact half to the even neighbour
Round2(num, den) ==
    LET q == (100 * num) \div den
        r == (100 * num) % den
    IN  IF 2 * r < den THEN q
        ELSE IF 2 * r > den THEN q + 1
        ELSE IF q % 2 = 0 THEN q ELSE q + 1

RECURSIVE SumOf(_, _)
\* sum(a.<field> for a in assignments), field being a selector of the record
SumOf(list, field) ==
    IF list = <<>> THEN 0
    ELSE list[1][field] + SumOf(Tail(list), field)

\* solver.calculate_total_distance(assignments): the sum, not rounded
calculate_total_distance(list) == SumOf(list, "total_distance")

KeyError(key) == [kind |-> "KeyError", key |-> key]

\* the dict built by "result = {k: [] for k in keys}" followed by
\* "result[e.agent_id].append(e.item)" for every entry in order; the first
\* entry whose agent_id is no key raises KeyError
GroupByKey(keys, entries) ==
    LET known == {keys[n] : n \in 1..Len(keys)}
        bad == {i \in 1..Len(entries) : entries[i].agent_id \notin known}
    IN  IF bad # {}
        THEN KeyError(entries[CHOOSE i \in bad : \A j \in bad : i <= j].agent_id)
        ELSE [kind |-> "ok",
              value |-> [n \in 1..Len(keys) |->
                  LET mine == SelectSeq(entries, LAMBDA e : e.agent_id = keys[n])
                  IN  [id |-> keys[n],
                       items |-> [m \in 1..Len(mine) |-> mine[m].item]]]]

\* solver.get_assignments_by_agent(assignments), with self.agents = agent_dict
get_assignments_by_agent(agent_dict, list) ==
    GroupByKey(Keys(agent_dict),
               [k \in 1..Len(list) |-> [agent_id |-> list[k].agent_id, item |-> list[k]]])

\* format_output(assignments, warehouses, agents, packages); the rounded
\* numbers are in hundredths
format_output(list, warehouse_dict, agent_dict, package_list) ==
    LET agent_assignments ==
            GroupByKey(Keys(agent_dict),
                [k \in 1..Len(list) |->
                    [agent_id |-> list[k].agent_id,
                     item |-> [package_id |-> list[k].package_id,
                               warehouse_id |-> list[k].warehouse_id,
                               distance |-> Round2(list[k].total_distance, 1),
                               delay |-> Round2(list[k].delay, 1)]]])
        total_distance == SumOf(list, "total_distance")
    IN  IF agent_assignments.kind = "KeyError" THEN agent_assignments
        ELSE [kind |-> "ok",
              total_distance |-> Round2(total_distance, 1),
              assignments |-> agent_assignments.value,
              statistics |->
                  [total_packages |-> Len(package_list),
                   total_agents |-> Len(agent_dict),
                   total_warehouses |-> Cardinality(DOMAIN warehouse_dict),
                   average_distance_per_package |->
                       IF package_list # <<>>
                       THEN Round2(total_distance, Len(package_list))
                       ELSE 0]]

\* ---------------------------------------------------------------- main.py
\* a command-line run starts with the input file not yet read
InitMain ==
    /\ agents \in AgentDicts(MaxAgents)
    /\ packages \in PackageLists(MaxMainPackages)
    /\ enable_delays \in BOOLEAN
    /\ enable_dynamic_agents \in BOOLEAN
    /\ pending_agents = <<>>
    /\ pc = "idle"
    /\ idx = 0
    /\ active_agents = <<>>
    /\ assignments = <<>>
    /\ scanned = <<>>
    /\ results = <<>>
    /\ registered = <<>>
    /\ joined = <<>>
    /\ warnings = 0
    /\ main_pc = "start"
    /\ output = NoOutput

engine == <<pending_agents, pc, idx, active_agents, assignments, scanned, results,
            registered, joined, warnings>>

\* lines 49-53: load_input_data returns the three collections, or raises
\* FileNotFoundError, JSONDecodeError or KeyError and main exits with 1
MainLoad ==
    /\ main_pc = "start"
    /\ \E loaded \in BOOLEAN :
           main_pc' = IF loaded THEN "loaded" ELSE "exit1_load"
    /\ UNCHANGED <<config, engine, output>>

\* id=f"A{len(agents) + 1}_DYNAMIC"
DynamicAgentId(n) == <<"A1_DYNAMIC", "A2_DYNAMIC", "A3_DYNAMIC", "A4_DYNAMIC">>[n + 1]

\* the mean of the agents' coordinates, lines 77-79 (exact for the locations
\* of up to two agents)
RECURSIVE SumCoordinate(_, _)
SumCoordinate(records, c) ==
    IF records = <<>> THEN 0
    ELSE records[1].location[c] + SumCoordinate(Tail(records), c)

AverageLocation(records) ==
    <<SumCoordinate(records, 1) \div Len(records),
      SumCoordinate(records, 2) \div Len(records)>>

\* lines 65-85: the solver is built; with --dynamic-agents and more than 3
\* packages one agent is registered to join at len(packages) // 2. With no
\* agent the mean divides by zero and main exits with 1.
MainCreateSolver ==
    /\ main_pc = "loaded"
    /\ IF enable_dynamic_agents /\ Len(packages) > 3
       THEN IF Len(agents) = 0
            THEN /\ main_pc' = "exit1_setup"
                 /\ UNCHANGED <<pending_agents, registered>>
            ELSE LET new_agent == Agent(DynamicAgentId(Len(agents)),
                                        AverageLocation(agents))
                     join_point == Len(packages) \div 2
                     entry == [join_idx |-> join_point, agent |-> new_agent]
                 IN  /\ pending_agents' = Append(pending_agents, entry)
                     /\ registered' = Append(registered, entry)
                     /\ main_pc' = "solve"
       ELSE /\ main_pc' = "solve"
            /\ UNCHANGED <<pending_agents, registered>>
    /\ UNCHANGED <<config, pc, idx, active_agents, assignments, scanned, results,
                   joined, warnings, output>>

\* line 88: assignments = solver.solve()
MainSolve ==
    /\ main_pc = "solve"
    /\ results = <<>>
    /\ SolveBegin

\* lines 88-151 once solve() is over: ValueError leaves through "except
\* Exception"; format_output may raise KeyError; the average delay printed at
\* line 105 divides by len(packages); no output file is asked for
MainFinish ==
    /\ main_pc = "solve"
    /\ pc = "idle"
    /\ Len(results) = 1
    /\ IF results[1].kind # "ok"
       THEN /\ main_pc' = "exit1_solve"
            /\ UNCHANGED output
       ELSE LET out == format_output(results[1].value, warehouses, agents, packages)
            IN  /\ output' = out
                /\ main_pc' = IF out.kind = "KeyError" THEN "exit1_format"
                              ELSE IF enable_delays /\ Len(packages) = 0
                                   THEN "exit1_print"
                                   ELSE "exit0"
    /\ UNCHANGED <<config, engine>>

NextMain ==
    \/ MainLoad
    \/ MainCreateSolver
    \/ MainSolve
    \/ ProcessPackage
    \/ RaiseWarehouseNotFound
    \/ SolveReturn
    \/ MainFinish

SpecMain == InitMain /\ [][NextMain]_vars

\* ------------------------------------------------- solve() as a function
\* the package the loop of line 87 takes at index idx, from the back of the
\* list (enumerate(reversed(self.packages)))
PackageAt_FromEnd(package_list, i) == package_list[Len(package_list) - i]

\* for idx, package in enumerate(self.packages), line 87
PackageAt(package_list, i) == package_list[i + 1]

\* the loop of lines 87-133 from index i on, on a fresh engine: delays[i + 1]
\* is the draw of line 118 at index i
RECURSIVE SolveFrom(_, _, _, _, _, _, _)
SolveFrom(active, pending, package_list, i, list, dynamic, delays) ==
    IF i >= Len(package_list) THEN Outcome("ok", list, None, None)
    ELSE LET package == PackageAt(package_list, i)
             admitted == Admit(i, active, pending, dynamic)
         IN  IF package.warehouse_id \notin DOMAIN warehouses
             THEN Outcome("ValueError", <<>>, package.id, package.warehouse_id)
             ELSE LET best == BestAgent(admitted, warehouses[package.warehouse_id],
                                        package.destination)
                  IN  SolveFrom(UpdateLocation(admitted, best[1], package.destination),
                                PendingAfter(i, pending, dynamic),
                                package_list, i + 1,
                                Record(list,
                                    Assignment(best[1], package.id, package.warehouse_id,
                                               RecordedDistance(best[2], delays[i + 1]),
                                               delays[i + 1], i)),
                                dynamic, delays)

\* DeliverySystemSolver(agent_dict, warehouses, package_list, ...) with the
\* registrations `pending`, then solve()
SolveOn(agent_dict, pending, package_list, dynamic, delays) ==
    SolveFrom(agent_dict, pending, package_list, 0, <<>>, dynamic, delays)

\* registrations are made on the engine before it solves
RegisterBeforeSolve ==
    /\ results = <<>>
    /\ AddDynamicAgent

\* the k-th run: a new engine with the same agents, warehouses, flags and
\* registrations solves the first k packages, k = 0, 1, ..., len(packages)
SolvePrefix ==
    /\ pc = "idle"
    /\ Len(results) <= Len(packages)
    /\ LET k == Len(results)
       IN  \E delays \in [1..k -> Delays(enable_delays)] :
               results' = Append(results,
                   SolveOn(agents, pending_agents, SubSeq(packages, 1, k),
                           enable_dynamic_agents, delays))
    /\ UNCHANGED <<config, pending_agents, pc, idx, active_agents, assignments,
                   scanned, registered, joined, warnings, cli>>

NextPrefix ==
    \/ RegisterBeforeSolve
    \/ SolvePrefix

SpecPrefix == Init /\ [][NextPrefix]_vars

\* ================================================================== claims
\* what the claims speak about
Resolvable(package) == package.warehouse_id \in DOMAIN warehouses
AllResolvable == \A k \in 1..Len(packages) : Resolvable(packages[k])
InitialIds == {agents[i].id : i \in 1..Len(agents)}
RegisteredIds == {registered[i].agent.id : i \in 1..Len(registered)}
\* trip distance of the active entry e for the k-th package
TripOf(e, k) ==
    calculate_trip_distance(e.location, warehouses[packages[k].warehouse_id],
                            packages[k].destination)

\* C1: with a non-empty initial agent set, no dynamic agent registered and
\* every warehouse present, a finished solve() returned a list as long as the
\* package list, whose k-th element is the assignment of the k-th package, and
\* in which every package id appears exactly once.
C1_OneAssignmentPerPackage ==
    \A r \in 1..Len(results) :
        (Len(agents) > 0 /\ results[r].nreg = 0 /\ AllResolvable)
        => /\ results[r].kind = "ok"
           /\ Len(results[r].value) = Len(packages)
           /\ \A k \in 1..Len(packages) :
                  /\ results[r].value[k].package_id = packages[k].id
                  /\ Cardinality({j \in 1..Len(results[r].value) :
                         results[r].value[j].package_id = packages[k].id}) = 1

C1_Witness ==
    /\ Len(agents) > 0
    /\ AllResolvable
    /\ Len(packages) = MaxPackages
    /\ \E r \in 1..Len(results) : results[r].nreg = 0 /\ results[r].kind = "ok"

\* C2: for every package processed, the recorded total_distance is the trip
\* distance from the chosen agent's tracked position at that moment, and no
\* agent active at that moment has a strictly smaller trip distance.
C2_RecordedDistanceIsMinimalTrip ==
    \A k \in 1..Len(assignments) :
        /\ HasKey(scanned[k], assignments[k].agent_id)
        /\ assignments[k].total_distance =
               calculate_trip_distance(DictGet(scanned[k], assignments[k].agent_id),
                                       warehouses[packages[k].warehouse_id],
                                       packages[k].destination)
        /\ \A i \in 1..Len(scanned[k]) :
               ~(TripOf(scanned[k][i], k) < assignments[k].total_distance)

\* the ids the claim's insertion order lists at the k-th package: the initial
\* agents in the order of the agents mapping, then the dynamic agents in the
\* order they joined during this call
JoinedBy(k) ==
    SelectSeq(joined, LAMBDA j : j.call = Len(results) + 1 /\ j.at <= k - 1)
ClaimedOrder(k) == Keys(agents) \o [i \in 1..Len(JoinedBy(k)) |-> JoinedBy(k)[i].agent.id]
\* the entries of the k-th search that share its minimal trip distance
Tied(k) ==
    {i \in 1..Len(scanned[k]) :
        \A j \in 1..Len(scanned[k]) : TripOf(scanned[k][i], k) <= TripOf(scanned[k][j], k)}

\* C3: when several active agents share the minimal trip distance, the chosen
\* one is the first of them in insertion order: initial agents in the order of
\* the agents mapping, followed by dynamic agents in the order they were
\* admitted.
C3_TieGoesToFirstInserted ==
    \A k \in 1..Len(assignments) :
        Cardinality(Tied(k)) > 1
        => LET order == ClaimedOrder(k)
               tiedIds == {scanned[k][i].id : i \in Tied(k)}
           IN  /\ \E n \in 1..Len(order) : order[n] \in tiedIds
               /\ assignments[k].agent_id =
                      order[CHOOSE n \in 1..Len(order) :
                                /\ order[n] \in tiedIds
                                /\ \A m \in 1..(n - 1) : order[m] \notin tiedIds]

\* C4: right after package k is processed the tracked position of its chosen
\* agent is the package's destination, and the search for package k+1 finds
\* that agent at that destination.
C4_ChosenAgentMovesToDestination ==
    \A k \in 1..Len(assignments) :
        LET id == assignments[k].agent_id
        IN  /\ k = Len(assignments)
               => /\ HasKey(active_agents, id)
                  /\ DictGet(active_agents, id) = packages[k].destination
            /\ k < Len(assignments)
               => /\ HasKey(scanned[k + 1], id)
                  /\ DictGet(scanned[k + 1], id) = packages[k].destination

\* C5: an agent registered with join threshold T is not the chosen agent of a
\* package with zero-based index i < T, and is in the active set for every
\* package with index i >= T.
C5_ThresholdGatesDynamicAgent ==
    \A n \in 1..Len(registered) : \A k \in 1..Len(assignments) :
        /\ k - 1 < registered[n].join_idx
           => assignments[k].agent_id # registered[n].agent.id
        /\ k - 1 >= registered[n].join_idx
           => HasKey(scanned[k], registered[n].agent.id)

\* C6: a package that meets an empty active set gets no assignment: solve()
\* fails instead, so no recorded assignment follows an empty search.
C6_EmptyActiveSetFails ==
    \A k \in 1..Len(assignments) : scanned[k] # <<>>

\* C7: if any package names a warehouse that is not in the warehouse set, a
\* finished solve() raised the reference error naming the first such package
\* and its warehouse id, and handed the caller no assignment.
C7_MissingWarehouseFailsWholeSolve ==
    \A r \in 1..Len(results) :
        ~AllResolvable
        => LET first == CHOOSE k \in 1..Len(packages) :
                            /\ ~Resolvable(packages[k])
                            /\ \A j \in 1..(k - 1) : Resolvable(packages[j])
           IN  /\ results[r].kind = "ValueError"
               /\ results[r].value = <<>>
               /\ results[r].package_id = packages[first].id
               /\ results[r].warehouse_id = packages[first].warehouse_id

C7_Witness ==
    /\ Len(packages) > 1
    /\ Resolvable(packages[1])
    /\ ~AllResolvable
    /\ Len(agents) > 0
    /\ \E r \in 1..Len(results) : results[r].kind = "ValueError"

\* C8: with delays disabled, two solve() calls on the same engine with the
\* same registered dynamic agents return identical assignment lists.
C8_RepeatedSolveIsDeterministic ==
    \A r, q \in 1..Len(results) :
        (~enable_delays /\ results[r].nreg = results[q].nreg)
        => results[r] = results[q]

\* C9: every recorded assignment carries the id of an agent supplied initially
\* or registered as a dynamic agent and a finite trip distance, and the active
\* set holds no other id.
C9_NoPlaceholderAgent ==
    /\ \A k \in 1..Len(assignments) :
           /\ assignments[k].agent_id \in InitialIds \cup RegisteredIds
           /\ assignments[k].total_distance < Inf
    /\ \A i \in 1..Len(active_agents) :
           active_agents[i].id \in InitialIds \cup RegisteredIds

\* C10: once add_dynamic_agent was called with dynamic agents disabled, the
\* pending queue is still empty, no agent ever joined, and the active set and
\* the assignments of any later solve() name only what the initial agents
\* mapping and the search itself put there.
C10_DisabledRegistrationIsIgnored ==
    warnings > 0
    => /\ pc \in {"idle", "loop"}
       /\ pending_agents = <<>>
       /\ registered = <<>>
       /\ joined = <<>>
       /\ \A i \in 1..Len(active_agents) : active_agents[i].id \in InitialIds \cup {None}
       /\ \A k \in 1..Len(assignments) :
              assignments[k].agent_id \in InitialIds \cup {None}

C10_Witness ==
    /\ warnings > 0
    /\ pc = "loop"
    /\ Len(assignments) > 0
    /\ Len(agents) > 0

\* the ids of the agents the engine knows: the initial ones and the dynamic
\* ones that joined
KnownIds == InitialIds \cup {joined[i].agent.id : i \in 1..Len(joined)}
\* whether s is a subsequence of t
IsSubsequence(s, t) ==
    \E f \in [1..Len(s) -> 1..Len(t)] :
        /\ \A i \in 1..Len(s) : s[i] = t[f[i]]
        /\ \A i, j \in 1..Len(s) : i < j => f[i] < f[j]

\* C11: grouping the list solve() returned succeeds, in
\* get_assignments_by_agent and in format_output alike; the mapping has a key
\* for every known agent id, every assignment is listed exactly once, under
\* its own agent id, and each agent's list is in solve order. Stated for
\* the runs with at least one initial agent, where every assignment names an
\* agent.
C11_GroupingCoversEveryAgent ==
    (Len(agents) > 0 /\ Len(results) = 1 /\ results[1].kind = "ok")
    => LET list == results[1].value
           grouped == get_assignments_by_agent(agents, list)
       IN  /\ grouped.kind = "ok"
           /\ output.kind # "KeyError"
           /\ {grouped.value[n].id : n \in 1..Len(grouped.value)} = KnownIds
           /\ \A n \in 1..Len(grouped.value) :
                  /\ \A m \in 1..Len(grouped.value[n].items) :
                         grouped.value[n].items[m].agent_id = grouped.value[n].id
                  /\ IsSubsequence(grouped.value[n].items, list)
           /\ \A k \in 1..Len(list) :
                  Cardinality({<<n, m>> \in (1..Len(grouped.value)) \X (1..Len(list)) :
                      /\ m <= Len(grouped.value[n].items)
                      /\ grouped.value[n].items[m] = list[k]}) = 1

\* the sum of the distances of the first n assignments of a list
RECURSIVE TotalOf(_, _)
TotalOf(list, n) ==
    IF n = 0 THEN 0 ELSE TotalOf(list, n - 1) + list[n].total_distance

Abs(x) == IF x < 0 THEN 0 - x ELSE x

\* the report main printed for the list solve() returned
Reported == main_pc = "exit0" /\ output.kind = "ok"

\* C12 (as stated): the reported total distance is the sum of the assignment
\* distances and the reported average is exactly that sum divided by the
\* package count, 0 when there is no package.
C12_AverageIsTotalOverCount ==
    Reported
    => LET list == results[1].value
           sum == TotalOf(list, Len(list))
           n == Len(packages)
           average == output.statistics.average_distance_per_package
       IN  /\ output.total_distance = 100 * sum
           /\ calculate_total_distance(list) = sum
           /\ n = 0 => average = 0
           /\ n > 0 => average * n = 100 * sum

\* C12 (amended): calculate_total_distance returns the sum of the assignment
\* distances; the report carries that sum rounded to two decimals and, as the
\* average, the sum divided by the package count rounded to the nearest
\* hundredth (an exact half to the even one), 0 when there is no package.
C12_AverageIsRoundedQuotient ==
    Reported
    => LET list == results[1].value
           sum == TotalOf(list, Len(list))
           n == Len(packages)
           average == output.statistics.average_distance_per_package
           error == Abs(average * n - 100 * sum)
       IN  /\ output.total_distance = 100 * sum
           /\ calculate_total_distance(list) = sum
           /\ n = 0 => average = 0
           /\ n > 0 => /\ 2 * error <= n
                       /\ 2 * error = n => average % 2 = 0

\* a report whose average is not the exact quotient
C12_Witness ==
    /\ Reported
    /\ Len(packages) = 3
    /\ output.statistics.average_distance_per_package * 3 # output.total_distance

\* every assignment made so far: those of the solve() in progress and those
\* of the lists already returned
AllAssignments ==
    {assignments[k] : k \in 1..Len(assignments)}
    \cup UNION {{results[r].value[k] : k \in 1..Len(results[r].value)} :
                r \in 1..Len(results)}

\* C13: with delays disabled every assignment has delay 0; with delays enabled
\* every assignment's delay lies in [min_delay, max_delay]; either way the
\* delay is not negative.
C13_DelayFollowsConfiguration ==
    \A a \in AllAssignments :
        /\ ~enable_delays => a.delay = 0
        /\ enable_delays => (MinDelay <= a.delay /\ a.delay <= MaxDelay)
        /\ a.delay >= 0

\* a returned list with delays enabled, one package at each end of the range,
\* after a list was returned
C13_Witness ==
    /\ enable_delays
    /\ Len(results) >= 1
    /\ results[1].kind = "ok"
    /\ Len(results[1].value) = 2
    /\ results[1].value[1].delay = MinDelay
    /\ results[1].value[2].delay = MaxDelay

\* C14: no accepted registration carries the id of an initial agent or of
\* another accepted registration, so no key of the active set stands for two
\* registered agents.
C14_CollidingIdIsRejected ==
    /\ \A i \in 1..Len(registered) : registered[i].agent.id \notin InitialIds
    /\ \A i, j \in 1..Len(registered) :
           registered[i].agent.id = registered[j].agent.id => i = j
    /\ \A i \in 1..Len(joined) :
           /\ joined[i].agent.id \notin InitialIds
           /\ \A j \in 1..Len(joined) :
                  (joined[i].agent.id = joined[j].agent.id
                   /\ joined[i].call = joined[j].call) => i = j

\* the exit status of a run that is over
Ended == main_pc \in {"exit0", "exit1_load", "exit1_setup", "exit1_solve",
                      "exit1_format", "exit1_print"}
ExitStatus == IF main_pc = "exit0" THEN 0 ELSE 1

\* C15: a run of main that is over has status 0 when the input was loaded and
\* solve() returned its list, and a non-zero status when loading failed or
\* solve() raised. Stated for the inputs with at least one agent and one
\* package.
C15_ExitStatusFollowsLoadAndSolve ==
    (Ended /\ Len(agents) > 0 /\ Len(packages) > 0)
    => /\ (Len(results) = 1 /\ results[1].kind = "ok") => ExitStatus = 0
       /\ main_pc = "exit1_load" => ExitStatus # 0
       /\ (Len(results) = 1 /\ results[1].kind # "ok") => ExitStatus # 0

\* C16: no step changes an Agent record: the agents mapping stays as it was
\* built, a registration once accepted keeps its agent and location, and the
\* agents waiting in the queue are registered agents with the location they
\* were registered with.
C16_AgentRecordsAreNeverWritten ==
    [][/\ agents' = agents
       /\ Len(registered') >= Len(registered)
       /\ \A i \in 1..Len(registered) : registered'[i] = registered[i]
       /\ \A i \in 1..Len(pending_agents') :
              \E j \in 1..Len(registered') : pending_agents'[i] = registered'[j]
      ]_vars

\* a solve() in progress in which an initial agent has moved: its tracked
\* position differs from the location of its record
C16_Witness ==
    /\ pc = "loop"
    /\ Len(assignments) >= 1
    /\ \E i \in 1..Len(active_agents) :
           /\ HasKey(agents, active_agents[i].id)
           /\ active_agents[i].id = assignments[Len(assignments)].agent_id
           /\ active_agents[i].location # DictGet(agents, active_agents[i].id)

\* the ids an active set offers at the least trip distance for the k-th package
Nearest(active, k) ==
    {active[i].id : i \in {n \in 1..Len(active) :
        \A m \in 1..Len(active) : TripOf(active[n], k) <= TripOf(active[m], k)}}

\* C17: the k-th assignment (input index k - 1) carries the id and the
\* warehouse id of the k-th package and the index k - 1; while the solve() is
\* running its agent id is the id of an agent of the searched set at the least
\* trip distance.
C17_AssignmentCarriesPackageAgentIndex ==
    /\ \A k \in 1..Len(assignments) :
           /\ assignments[k].package_id = packages[k].id
           /\ assignments[k].warehouse_id = packages[k].warehouse_id
           /\ assignments[k].timestamp = k - 1
           /\ scanned[k] # <<>> => assignments[k].agent_id \in Nearest(scanned[k], k)
    /\ \A r \in 1..Len(results) :
           results[r].kind = "ok"
           => \A k \in 1..Len(results[r].value) :
                  /\ results[r].value[k].package_id = packages[k].id
                  /\ results[r].value[k].warehouse_id = packages[k].warehouse_id
                  /\ results[r].value[k].timestamp = k - 1

\* the second package of a run went to another agent than the first
C17_Witness ==
    /\ pc = "loop"
    /\ Len(assignments) = 2
    /\ Len(scanned[2]) = 2
    /\ assignments[1].agent_id # assignments[2].agent_id
    /\ assignments[2].timestamp = 1

\* what solve() does with both features off: the loop of lines 87-133 with
\* neither the admission of line 90 nor the draw of line 118, from the k-th
\* package on
RECURSIVE PlainSolve(_, _, _)
PlainSolve(active, k, list) ==
    IF k > Len(packages) THEN [kind |-> "ok", value |-> list]
    ELSE IF ~Resolvable(packages[k]) THEN [kind |-> "ValueError", value |-> <<>>]
    ELSE LET best == BestAgent(active, warehouses[packages[k].warehouse_id],
                               packages[k].destination)
         IN  PlainSolve(UpdateLocation(active, best[1], packages[k].destination),
                        k + 1,
                        Append(list, Assignment(best[1], packages[k].id,
                                                packages[k].warehouse_id,
                                                best[2], 0, k - 1)))

\* an assignment without its delay
Core(a) == [agent_id |-> a.agent_id, package_id |-> a.package_id,
            warehouse_id |-> a.warehouse_id, total_distance |-> a.total_distance,
            timestamp |-> a.timestamp]

\* C18: a solve() that ended with no dynamic agent registered ended as the
\* solver with both features off ends on the same input, and its assignments
\* differ from that solver's in the delay field at most, whatever the two
\* feature flags are.
C18_FeaturesOffIsPlainSolver ==
    \A r \in 1..Len(results) :
        results[r].nreg = 0
        => LET plain == PlainSolve(agents, 1, <<>>)
           IN  /\ results[r].kind = plain.kind
               /\ Len(results[r].value) = Len(plain.value)
               /\ \A k \in 1..Len(plain.value) :
                      Core(results[r].value[k]) = Core(plain.value[k])
               /\ ~enable_delays => results[r].value = plain.value

\* both features on, nothing registered, two packages delivered with delays
C18_Witness ==
    /\ enable_delays
    /\ enable_dynamic_agents
    /\ Len(results) = 1
    /\ results[1].nreg = 0
    /\ results[1].kind = "ok"
    /\ Len(results[1].value) = 2
    /\ results[1].value[1].agent_id # None
    /\ results[1].value[2].delay > 0

\* the p-th smallest element of a set of numbers
Nth(S, p) == CHOOSE i \in S : Cardinality({j \in S : j < i}) = p - 1

\* a step of solve() that ran the admission of line 90
AdmissionStep ==
    /\ enable_dynamic_agents
    /\ pc = "loop"
    /\ idx < Len(packages)
    /\ (idx' # idx \/ pc' # pc)

\* position of a key in a dict
PositionOf(d, k) == CHOOSE i \in 1..Len(d) : d[i].id = k

\* C19: an admission at package index idx splits the queue by position: the
\* entries with threshold <= idx are the ones admitted, logged in queue order
\* whatever their thresholds, and the ids new to the active set enter it in
\* the order of their first admitted entry; the entries with a larger
\* threshold are the new queue, in their old order.
C19_AdmissionIsStablePartition ==
    [][AdmissionStep
       => LET met == {i \in 1..Len(pending_agents) : pending_agents[i].join_idx <= idx}
              unmet == (1..Len(pending_agents)) \ met
          IN  /\ Len(pending_agents') = Cardinality(unmet)
              /\ \A p \in 1..Cardinality(unmet) :
                     pending_agents'[p] = pending_agents[Nth(unmet, p)]
              /\ Len(joined') = Len(joined) + Cardinality(met)
              /\ \A p \in 1..Cardinality(met) :
                     /\ joined'[Len(joined) + p].agent = pending_agents[Nth(met, p)].agent
                     /\ joined'[Len(joined) + p].join_idx
                            = pending_agents[Nth(met, p)].join_idx
                     /\ joined'[Len(joined) + p].at = idx
              /\ Len(scanned') > Len(scanned)
                 => LET active == scanned'[Len(scanned')]
                    IN  \A i, j \in met :
                            (/\ i < j
                             /\ \A h \in met : h < j =>
                                    pending_agents[h].agent.id # pending_agents[j].agent.id
                             /\ ~HasKey(active_agents, pending_agents[i].agent.id)
                             /\ ~HasKey(active_agents, pending_agents[j].agent.id))
                            => PositionOf(active, pending_agents[i].agent.id)
                                   < PositionOf(active, pending_agents[j].agent.id)
      ]_vars

\* two agents admitted in one step, the one registered first with the larger
\* threshold, both new to the active set
C19_Witness ==
    /\ pc = "loop"
    /\ Len(scanned) >= 1
    /\ Len(joined) = 2
    /\ joined[1].call = joined[2].call
    /\ joined[1].at = joined[2].at
    /\ joined[1].join_idx > joined[2].join_idx
    /\ joined[1].agent.id # joined[2].agent.id
    /\ joined[1].agent.id \notin InitialIds
    /\ joined[2].agent.id \notin InitialIds
    /\ Len(scanned[Len(scanned)]) >= 2

\* how many entries of a sequence are the registration e
Occurrences(s, e) ==
    Cardinality({i \in 1..Len(s) : s[i].agent = e.agent /\ s[i].join_idx = e.join_idx})

\* C20: every accepted registration is either still in the pending queue or
\* was admitted once, never both and never twice; a registration whose
\* threshold is at least the package count is in the queue at all times, so
\* also when solve() returns.
C20_PendingAgentIsAdmittedOnce ==
    /\ \A n \in 1..Len(registered) :
           /\ Occurrences(pending_agents, registered[n])
                  + Occurrences(joined, registered[n])
              = Occurrences(registered, registered[n])
           /\ registered[n].join_idx >= Len(packages)
              => Occurrences(pending_agents, registered[n])
                     = Occurrences(registered, registered[n])
    /\ \A i \in 1..Len(pending_agents) : Occurrences(registered, pending_agents[i]) >= 1
    /\ \A i \in 1..Len(joined) : Occurrences(registered, joined[i]) >= 1

\* solve() has returned: one agent was admitted and is out of the queue, one
\* whose threshold was never met is still in it
C20_Witness ==
    /\ pc = "idle"
    /\ Len(results) >= 1
    /\ results[Len(results)].kind = "ok"
    /\ Len(joined) = 1
    /\ Len(pending_agents) = 1
    /\ pending_agents[1].join_idx >= Len(packages)
    /\ Len(registered) = 2
    /\ Occurrences(pending_agents, joined[1]) = 0

\* a step of solve() that processed one package
PackageStep == pc = "loop" /\ pc' = "loop" /\ idx' = idx + 1

\* C21: a step that processes one package leaves every agent that was active
\* before the step in the active set, and leaves the tracked position of each
\* of them other than the chosen one as it was before the step, the admission
\* at the start of the step included.
C21_OnlyChosenAgentMoves ==
    [][PackageStep
       => LET chosen == assignments'[Len(assignments')].agent_id
          IN  \A i \in 1..Len(active_agents) :
                  /\ HasKey(active_agents', active_agents[i].id)
                  /\ active_agents[i].id # chosen
                     => DictGet(active_agents', active_agents[i].id)
                            = active_agents[i].location
      ]_vars

\* C22: with delays disabled, engines with the same agents, warehouses and
\* registrations agree on every common prefix: when the run on the first s
\* packages returns a list, the run on the first r <= s packages returns
\* exactly the first r assignments of that list.
C22_PrefixOfPackagesGivesPrefixOfAssignments ==
    ~enable_delays
    => \A r, s \in 1..Len(results) :
           (r <= s /\ results[s].kind = "ok")
           => /\ results[r].kind = "ok"
              /\ results[r].value = SubSeq(results[s].value, 1, r - 1)

\* the runs on 0, 1 and 2 packages are over; in the full run a dynamic agent
\* joined at the second package and took it from the initial agent
C22_Witness ==
    /\ ~enable_delays
    /\ Len(packages) = 2
    /\ Len(results) = 3
    /\ results[3].kind = "ok"
    /\ Len(pending_agents) >= 1
    /\ pending_agents[1].join_idx = 1
    /\ results[3].value[1].agent_id \in InitialIds
    /\ results[3].value[2].agent_id \in RegisteredIds \ InitialIds

====
